---- MODULE Spec2Model ----
(***************************************************************************)
(* A model of go-infinias-api: the Local Store credential operations       *)
(* (db/db.go), the paginated listing of the Remote Directory client        *)
(* (api/api.go), the retry supervisor (cmd/infinias-api/service), the      *)
(* aggregation layer with its HTTP handlers (auth.go), the goroutine of    *)
(* Service.Start, and two concurrent CreateCredential transactions.        *)
(*                                                                         *)
(* Each part has its own specification (SpecDB, SpecList, SpecRetry,       *)
(* SpecSvc, SpecSup, SpecConc) over the module's variables; a              *)
(* specification leaves the variables of the parts it does not follow at   *)
(* their initial values.                                                   *)
(***************************************************************************)
EXTENDS Integers, Sequences, FiniteSets, TLC

VARIABLES
    \* ---- Local Store (SQL Server), db/db.go ----
    credential,     \* rows of EAC.Credential: [Id, PersonId, IsActive]
    wiegand,        \* rows of EAC.WiegandCredential: [SiteCode, CardCode, CredentialId, CustomerZoneId]
    nextIdentity,   \* next value of the identity column EAC.Credential.Id
    evalOrder,      \* how the build orders `int(credID)` and the WithTx call (db.go:145)
    last,           \* the call that produced the current state, and what it returned
    \* ---- Remote Directory listing, api/api.go ----
    lPc,            \* "idle", "loop" (inside the for loop), "done" (returned)
    lKind,          \* "people" (ListPeople) or "groups" (ListGroups)
    srvN,           \* the number of items the server holds
    people,         \* the people (or groups) accumulated so far
    total,          \* the local total
    count,          \* the local count
    lResult,        \* the list returned
    lErr,           \* the error returned
    trace,          \* what the listing has asked and been told so far
    \* ---- Retry supervisor, cmd/infinias-api/service/retry.go ----
    rPc,            \* "idle", "running" (about to invoke f), "returned"
    strategy,       \* the RetryStrategy Retry is called on
    tries,          \* the local tries
    backoff,        \* the local backoff
    invocations,    \* the number of times f has been invoked
    bases,          \* the value of backoff of every sleep so far
    lastSleep,      \* the duration of the last sleep
    rErr,           \* the error Retry returned
    \* ---- Aggregation layer and its HTTP handlers, part_003 and auth.go ----
    remote,         \* the people of the Remote Directory, in the order it lists them
    remoteNextID,   \* the identifier the Remote Directory assigns next
    personImage,    \* EAC.PersonImage: person identifier -> "norow", "null", "empty", "bytes"
    eacPerson,      \* EAC.Person.Department: person identifier -> "norow", "null" or a name
    sLast,          \* the request that produced the current state, and its response
    \* ---- Windows service, Service.Start (part_000) ----
    cancelled,      \* s.cancel() has been called: the context of the service is done
    \* ---- Two concurrent CreateCredential transactions, db/db.go ----
    uniqueIndex,    \* EAC.WiegandCredential has a unique index on the card pair
    txs             \* the two transactions: position, arguments, row scanned, writes

dbVars == <<credential, wiegand, nextIdentity, evalOrder, last>>
listVars == <<lPc, lKind, srvN, people, total, count, lResult, lErr, trace>>
retryVars == <<rPc, strategy, tries, backoff, invocations, bases, lastSleep, rErr>>
svcVars == <<remote, remoteNextID, personImage, eacPerson, sLast>>
supVars == <<cancelled>>
concVars == <<uniqueIndex, txs>>

--------------------------------------------------------------------------
\* Bounds of the model.
MaxPerson == 2          \* person identifiers 1..MaxPerson
MaxIdentity == 2        \* identity values handed out by EAC.Credential

Persons == 1..MaxPerson
\* The card pairs (site code, card code) callers ask for.
CardPairs == {<<1, 2>>, <<2, 1>>}
Credentials == { [Active |-> a, SiteCode |-> p[1], CardCode |-> p[2]] :
                 a \in BOOLEAN, p \in CardPairs }

--------------------------------------------------------------------------
\* Errors. `is` is the sentinel errors.Is finds in the chain ("" when none).
Nil == [msg |-> "nil", is |-> ""]
ErrCredentialExists == [msg |-> "credential exists", is |-> "ErrCredentialExists"]
Errorf(msg) == [msg |-> msg, is |-> ""]

\* The zone the statements of CreateCredential are hard set to.
CustomerZoneId == 1

\* The zero values of credID, personID and active before Scan assigns them.
NoRow == [Id |-> 0, PersonId |-> 0, IsActive |-> FALSE]

\* A mutant of MatchingRows: the lookup filters on another zone than the one
\* the insert writes, so it never sees the rows it created.
MatchingRows_WrongZone(C, W, cred) ==
    { c \in C : \E w \in W : /\ w.CredentialId = c.Id
                             /\ w.SiteCode = cred.SiteCode
                             /\ w.CardCode = cred.CardCode
                             /\ w.CustomerZoneId = CustomerZoneId + 1 }

\* The rows of the select of CreateCredential: credentials joined to their
\* card binding, for the card pair of cred in zone 1.
MatchingRows(C, W, cred) ==
    { c \in C : \E w \in W : /\ w.CredentialId = c.Id
                             /\ w.SiteCode = cred.SiteCode
                             /\ w.CardCode = cred.CardCode
                             /\ w.CustomerZoneId = CustomerZoneId }

\* QueryRow(...).Scan: the first row of the result, in no promised order;
\* sql.ErrNoRows leaves credID, personID and active at their zero values.
QueryRow(rows) == IF rows = {} THEN {NoRow} ELSE rows

\* A mutant of ExistsForAnother: the owner comparison is dropped.
ExistsForAnother_Never(credID, personID, id) == credID # 0 /\ personID # personID

\* "credential exists for another user"
ExistsForAnother(credID, personID, id) == credID # 0 /\ personID # id

\* "credential exists and matches"
ExistsAndMatches(credID, personID, active, id, cred) ==
    credID # 0 /\ personID = id /\ cred.Active = active

\* "credential exists but has mismatched status"
ExistsMismatched(credID, personID, id) == credID # 0 /\ personID = id

\* update EAC.Credential set IsActive = @p1 where Id = @p2
UpdateIsActive(C, credID, active) ==
    { IF c.Id = credID THEN [c EXCEPT !.IsActive = active] ELSE c : c \in C }

\* The function CreateCredential hands to WithTx, run on the tables C and W
\* as the transaction sees them. `at` is the statement the storage fails at
\* ("none": no statement fails), `row` the row QueryRow scanned. The result
\* holds the error returned, credID as the closure leaves it, the tables as
\* written inside the transaction, the identity counter, and the statement
\* that failed.
CreateCredentialFn(C, W, ident, id, cred, at, row) ==
    LET out(err, credID, C2, W2, ident2, failed) ==
            [err |-> err, credID |-> credID, C |-> C2, W |-> W2,
             ident |-> ident2, failed |-> failed]
    IN  IF at = "query"
        THEN out(Errorf("could not query credentials"), 0, C, W, ident, "query")
        ELSE IF ExistsForAnother(row.Id, row.PersonId, id)
        THEN out(ErrCredentialExists, row.Id, C, W, ident, "none")
        ELSE IF ExistsAndMatches(row.Id, row.PersonId, row.IsActive, id, cred)
        THEN out(Nil, row.Id, C, W, ident, "none")
        ELSE IF ExistsMismatched(row.Id, row.PersonId, id)
        THEN IF at = "update"
             THEN out(Errorf("could not update credential"), row.Id, C, W, ident, "update")
             ELSE out(Nil, row.Id, UpdateIsActive(C, row.Id, cred.Active), W, ident, "none")
        ELSE IF at = "insert"
        THEN out(Errorf("could not create credential"), row.Id, C, W, ident, "insert")
        ELSE LET newID == ident
                 C2 == C \cup {[Id |-> newID, PersonId |-> id, IsActive |-> cred.Active]}
                 W2 == W \cup {[SiteCode |-> cred.SiteCode, CardCode |-> cred.CardCode,
                                CredentialId |-> newID, CustomerZoneId |-> CustomerZoneId]}
             IN  IF newID < 1
                 THEN out(Errorf("unexpected credential id"), newID, C2, W, ident + 1, "none")
                 ELSE IF at = "insertWiegand"
                 THEN out(Errorf("could not create wiegand credential"), newID, C2, W,
                          ident + 1, "insertWiegand")
                 ELSE out(Nil, newID, C2, W2, ident + 1, "none")

\* The ownership count of DeleteCredential:
\* select count(*) from EAC.Credential where Id = @p1 and PersonId = @p2
\* A mutant: the count forgets the owner.
OwnedCount_AnyOwner(C, id, credID) == Cardinality({ c \in C : c.Id = credID })

OwnedCount(C, id, credID) ==
    Cardinality({ c \in C : c.Id = credID /\ c.PersonId = id })

\* The function DeleteCredential hands to WithTx.
DeleteCredentialFn(C, W, ident, id, credID, at) ==
    LET out(err, C2, W2, failed) ==
            [err |-> err, credID |-> credID, C |-> C2, W |-> W2,
             ident |-> ident, failed |-> failed]
        rowCount == OwnedCount(C, id, credID)
        W2 == { w \in W : w.CredentialId # credID }
        C2 == { c \in C : c.Id # credID }
    IN  IF at = "query"
        THEN out(Errorf("could not count credentials"), C, W, "query")
        ELSE IF rowCount = 0
        THEN out(Nil, C, W, "none")
        ELSE IF rowCount > 1
        THEN out(Errorf("unexpected credential count"), C, W, "none")
        ELSE IF at = "deleteWiegand"
        THEN out(Errorf("could not delete wiegand credentials"), C, W, "deleteWiegand")
        ELSE IF at = "deleteCredential"
        THEN out(Errorf("could not delete credentials"), C, W2, "deleteCredential")
        ELSE out(Nil, C2, W2, "none")

\* A mutant of WithTx: a failed function leaves what it wrote (no rollback).
WithTx_NoRollback(C, W, ident, fn, at, rollbackFails, committed) ==
    LET out(err, credID, C2, W2, ident2, failed) ==
            [err |-> err, credID |-> credID, C |-> C2, W |-> W2,
             ident |-> ident2, failed |-> failed]
    IN  IF at = "begin"
        THEN out(Errorf("could not start transaction"), 0, C, W, ident, "begin")
        ELSE IF fn.err # Nil
        THEN IF rollbackFails
             THEN out(Errorf("could not rollback transaction"), fn.credID, fn.C, fn.W,
                      fn.ident, "rollback")
             ELSE out(fn.err, fn.credID, fn.C, fn.W, fn.ident, fn.failed)
        ELSE IF at = "commit"
        THEN IF committed
             THEN out(Errorf("could not commit transaction"), fn.credID, fn.C, fn.W,
                      fn.ident, "commit")
             ELSE out(Errorf("could not commit transaction"), fn.credID, C, W,
                      fn.ident, "commit")
        ELSE out(Nil, fn.credID, fn.C, fn.W, fn.ident, "none")

\* Conn.WithTx around the result fn of the function it ran on the tables C, W.
\* at = "begin": Begin fails and the function is never run. rollbackFails:
\* tx.Rollback returns an error (the transaction is not committed either
\* way). at = "commit": tx.Commit returns an error; committed tells whether
\* the server had applied the transaction before the error reached the client.
\* The identity counter is not transactional: values handed out inside a
\* transaction that rolls back are not handed out again.
WithTx(C, W, ident, fn, at, rollbackFails, committed) ==
    LET out(err, credID, C2, W2, ident2, failed) ==
            [err |-> err, credID |-> credID, C |-> C2, W |-> W2,
             ident |-> ident2, failed |-> failed]
    IN  IF at = "begin"
        THEN out(Errorf("could not start transaction"), 0, C, W, ident, "begin")
        ELSE IF fn.err # Nil
        THEN IF rollbackFails
             THEN out(Errorf("could not rollback transaction"), fn.credID, C, W,
                      fn.ident, "rollback")
             ELSE out(fn.err, fn.credID, C, W, fn.ident, fn.failed)
        ELSE IF at = "commit"
        THEN IF committed
             THEN out(Errorf("could not commit transaction"), fn.credID, fn.C, fn.W,
                      fn.ident, "commit")
             ELSE out(Errorf("could not commit transaction"), fn.credID, C, W,
                      fn.ident, "commit")
        ELSE out(Nil, fn.credID, fn.C, fn.W, fn.ident, "none")

\* `return int(credID), c.WithTx(...)`: the Go specification orders the call
\* but not the read of credID relative to it. A build reads credID either
\* before the call (its zero value) or after it (what the closure assigned).
EvalOrders == {"operandFirst", "callFirst"}

ReturnedID(order, credIDAfter) ==
    IF order = "operandFirst" THEN credIDAfter - credIDAfter ELSE credIDAfter

CreateFaults == {"none", "begin", "query", "update", "insert", "insertWiegand", "commit"}
DeleteFaults == {"none", "begin", "query", "deleteWiegand", "deleteCredential", "commit"}

\* The record kept of a call that has returned and whose result the caller
\* has not taken yet; NoCall when the connection is idle. `again` marks a
\* call that repeats the arguments of the call before it.
NoCall == [op |-> "none", id |-> 0, cred |-> [Active |-> FALSE, SiteCode |-> 0, CardCode |-> 0],
           credID |-> 0, err |-> Nil, ret |-> 0, failed |-> "none", again |-> FALSE]

--------------------------------------------------------------------------
\* One run of Conn.CreateCredential(id, cred) on the store, from Begin to
\* Commit or Rollback and the return to the caller.
RunCreateCredential(id, cred, at, rollbackFails, committed, again) ==
    \E row \in QueryRow(MatchingRows(credential, wiegand, cred)) :
    \E fn \in {CreateCredentialFn(credential, wiegand, nextIdentity, id, cred, at, row)} :
    \E tx \in {WithTx(credential, wiegand, nextIdentity, fn, at, rollbackFails, committed)} :
        /\ tx.ident <= MaxIdentity + 1
        \* a fault is chosen only where the call reaches it
        /\ at # "none" => tx.failed \in {at, "rollback"}
        /\ rollbackFails => tx.failed = "rollback"
        /\ committed => tx.failed = "commit"
        /\ credential' = tx.C
        /\ wiegand' = tx.W
        /\ nextIdentity' = tx.ident
        /\ last' = [op |-> "create", id |-> id, cred |-> cred, credID |-> 0,
                    err |-> tx.err, ret |-> ReturnedID(evalOrder, tx.credID),
                    failed |-> tx.failed, again |-> again]
        /\ UNCHANGED evalOrder

\* Conn.CreateCredential(id, cred), called on an idle connection.
CreateCredential(id, cred, at, rollbackFails, committed) ==
    /\ last.op = "none"
    /\ RunCreateCredential(id, cred, at, rollbackFails, committed, FALSE)

\* Conn.CreateCredential called a second time in a row with the arguments of
\* a call that has just succeeded.
CreateCredentialAgain(at, rollbackFails, committed) ==
    /\ last.op = "create" /\ ~last.again /\ last.err = Nil
    /\ RunCreateCredential(last.id, last.cred, at, rollbackFails, committed, TRUE)

\* Conn.DeleteCredential(id, credID), called on an idle connection.
DeleteCredential(id, credID, at, rollbackFails, committed) ==
    /\ last.op = "none"
    /\ \E fn \in {DeleteCredentialFn(credential, wiegand, nextIdentity, id, credID, at)} :
       \E tx \in {WithTx(credential, wiegand, nextIdentity, fn, at, rollbackFails, committed)} :
        /\ at # "none" => tx.failed \in {at, "rollback"}
        /\ rollbackFails => tx.failed = "rollback"
        /\ committed => tx.failed = "commit"
        /\ credential' = tx.C
        /\ wiegand' = tx.W
        /\ nextIdentity' = tx.ident
        /\ last' = [op |-> "delete", id |-> id, cred |-> NoCall.cred, credID |-> credID,
                    err |-> tx.err, ret |-> 0, failed |-> tx.failed, again |-> FALSE]
        /\ UNCHANGED evalOrder

\* The caller takes the result of the call; the connection is idle again.
CallReturned ==
    /\ last.op # "none"
    /\ last' = NoCall
    /\ UNCHANGED <<credential, wiegand, nextIdentity, evalOrder>>

\* An empty store, and a build that orders the return of CreateCredential in
\* one of the ways of `orders`.
InitStore(orders) ==
    /\ credential = {}
    /\ wiegand = {}
    /\ nextIdentity = 1
    /\ evalOrder \in orders
    /\ last = NoCall

InitDB == InitStore(EvalOrders)

NextDB ==
    \/ \E id \in Persons, cred \in Credentials, at \in CreateFaults,
          rollbackFails \in BOOLEAN, committed \in BOOLEAN :
            CreateCredential(id, cred, at, rollbackFails, committed) /\ UNCHANGED <<listVars, retryVars, svcVars, supVars, concVars>>
    \/ \E at \in CreateFaults, rollbackFails \in BOOLEAN, committed \in BOOLEAN :
            CreateCredentialAgain(at, rollbackFails, committed) /\ UNCHANGED <<listVars, retryVars, svcVars, supVars, concVars>>
    \/ \E id \in Persons, credID \in 0..MaxIdentity, at \in DeleteFaults,
          rollbackFails \in BOOLEAN, committed \in BOOLEAN :
            DeleteCredential(id, credID, at, rollbackFails, committed) /\ UNCHANGED <<listVars, retryVars, svcVars, supVars, concVars>>
    \/ CallReturned /\ UNCHANGED <<listVars, retryVars, svcVars, supVars, concVars>>

--------------------------------------------------------------------------
\* The paginated listing of Conn.ListPeople and Conn.ListGroups.

MaxItems == 5       \* the server holds 0..MaxItems items
MaxPage == 2        \* a page carries at most MaxPage items
MaxRequests == 4    \* page requests of one listing the model follows

\* The item the server holds at position j (from 1): its Id.
ServerItem(j) == [Id |-> 100 + j]

\* The page of at most k items the server returns for offset start.
ServerPage(n, start, k) ==
    [j \in 1..(IF start + k <= n THEN k ELSE IF start < n THEN n - start ELSE 0)
        |-> ServerItem(start + j)]

\* The totals a page may declare.
Totals(n) == {0 - 1, 0, n - 1, n, n + 1}

\* &Person{ID: p.ID, ...} and &Group{ID: p.ID, ...}
Converted(items) == [j \in 1..Len(items) |-> [ID |-> items[j].Id]]

\* `total := 1`
InitialTotal == 1

\* A mutant of LoopCond: the loop runs until count equals total.
LoopCond_NotEqual(cnt, tot) == cnt # tot

\* A mutant of LoopCond: the loop runs once more when count has reached total.
LoopCond_Inclusive(cnt, tot) == cnt <= tot

\* `for count < total`
LoopCond(cnt, tot) == cnt < tot

\* A mutant of StartOffset: every request asks for the first page.
StartOffset_First(cnt) == cnt - cnt

\* q.Set("Start", strconv.Itoa(count))
StartOffset(cnt) == cnt

NoTrace == [requests |-> <<>>, accumulated |-> <<>>, first |-> <<>>, maxTotal |-> <<>>,
            honest |-> TRUE, malformed |-> FALSE, faulted |-> FALSE]

\* What a page does to the record of the listing: the offset asked, the
\* number of items held when asking, the first page's total and size, the
\* largest total declared, whether every page so far is what a server holding
\* srvN items declares and returns (total srvN, a non-empty run when items
\* are left), and whether some total was negative or below an earlier one.
Traced(cnt, start, declared, items) ==
    [requests |-> Append(trace.requests, start),
     accumulated |-> Append(trace.accumulated, cnt),
     first |-> IF trace.first = <<>> THEN <<[Count |-> declared, n |-> Len(items)]>>
               ELSE trace.first,
     maxTotal |-> IF trace.maxTotal = <<>> \/ trace.maxTotal[1] < declared
                  THEN <<declared>> ELSE trace.maxTotal,
     honest |-> /\ trace.honest
                /\ declared = srvN
                /\ items = ServerPage(srvN, start, Len(items))
                /\ (start < srvN => Len(items) >= 1),
     malformed |-> \/ trace.malformed
                   \/ declared < 0
                   \/ (trace.maxTotal # <<>> /\ declared < trace.maxTotal[1]),
     faulted |-> trace.faulted]

\* The statements before the loop: `var people; total := 1; count := 0`.
\* A listing shares nothing with the listings before it, so the model follows
\* one.
ListStart(kind, n) ==
    /\ lPc = "idle"
    /\ lPc' = "loop"
    /\ lKind' = kind
    /\ srvN' = n
    /\ people' = <<>>
    /\ total' = InitialTotal
    /\ count' = 0
    /\ lResult' = <<>>
    /\ lErr' = Nil
    /\ trace' = NoTrace

\* One pass of the loop body: the GET for offset count, the decoding of the
\* response, resp.Error(), the append of the items, and the update of total
\* and count. fault names the step that fails ("none": the page is read);
\* the page carries k items from the offset asked and declares `declared`.
ListRequest(kind, k, declared, fault) ==
    /\ lPc = "loop" /\ lKind = kind
    /\ LoopCond(count, total)
    /\ Len(trace.requests) < MaxRequests
    /\ IF fault # "none"
       THEN /\ lPc' = "done"
            /\ lResult' = <<>>
            /\ lErr' = Errorf(fault)
            /\ trace' = [trace EXCEPT !.requests = Append(@, StartOffset(count)),
                                      !.accumulated = Append(@, Len(people)),
                                      !.faulted = TRUE]
            /\ UNCHANGED <<lKind, srvN, people, total, count>>
       ELSE \E items \in {ServerPage(srvN, StartOffset(count), k)} :
            /\ people' = people \o Converted(items)
            /\ total' = declared
            /\ count' = Len(people')
            /\ trace' = Traced(Len(people), StartOffset(count), declared, items)
            /\ UNCHANGED <<lPc, lKind, srvN, lResult, lErr>>

\* `return people, nil` once the loop condition fails.
ListReturn(kind) ==
    /\ lPc = "loop" /\ lKind = kind
    /\ ~LoopCond(count, total)
    /\ lPc' = "done"
    /\ lResult' = people
    /\ lErr' = Nil
    /\ UNCHANGED <<lKind, srvN, people, total, count, trace>>

ListFaults == {"none", "could not GET", "could not decode response body", "response error"}

ListPeople(n) == ListStart("people", n)
ListPeopleRequest(k, declared, fault) == ListRequest("people", k, declared, fault)
ListPeopleReturn == ListReturn("people")

ListGroups(n) == ListStart("groups", n)
ListGroupsRequest(k, declared, fault) == ListRequest("groups", k, declared, fault)
ListGroupsReturn == ListReturn("groups")

InitList ==
    /\ lPc = "idle"
    /\ lKind = "people"
    /\ srvN = 0
    /\ people = <<>>
    /\ total = InitialTotal
    /\ count = 0
    /\ lResult = <<>>
    /\ lErr = Nil
    /\ trace = NoTrace

NextList ==
    \/ \E n \in 0..MaxItems : ListPeople(n) /\ UNCHANGED <<dbVars, retryVars, svcVars, supVars, concVars>>
    \/ \E k \in 0..MaxPage, declared \in Totals(srvN), fault \in ListFaults :
            ListPeopleRequest(k, declared, fault) /\ UNCHANGED <<dbVars, retryVars, svcVars, supVars, concVars>>
    \/ ListPeopleReturn /\ UNCHANGED <<dbVars, retryVars, svcVars, supVars, concVars>>
    \/ \E n \in 0..MaxItems : ListGroups(n) /\ UNCHANGED <<dbVars, retryVars, svcVars, supVars, concVars>>
    \/ \E k \in 0..MaxPage, declared \in Totals(srvN), fault \in ListFaults :
            ListGroupsRequest(k, declared, fault) /\ UNCHANGED <<dbVars, retryVars, svcVars, supVars, concVars>>
    \/ ListGroupsReturn /\ UNCHANGED <<dbVars, retryVars, svcVars, supVars, concVars>>

--------------------------------------------------------------------------
\* RetryStrategy.Retry. Durations are counted in seconds.

MaxInitial == 2         \* Initial in 1..MaxInitial
MaxRetriesCfg == 5      \* MaxRetries in 0..MaxRetriesCfg
MaxDurationCfg == 5     \* MaxDuration in 1..MaxDurationCfg
MaxJitterCfg == 2       \* MaxJitter in 1..MaxJitterCfg
MaxInvocations == 6     \* invocations of f of one Retry the model follows

Strategies == [Initial : 1..MaxInitial, MaxRetries : 0..MaxRetriesCfg,
               MaxDuration : 1..MaxDurationCfg, MaxJitter : 1..MaxJitterCfg]

NoStrategy == [Initial |-> 1, MaxRetries |-> 0, MaxDuration |-> 1, MaxJitter |-> 1]

\* The error of the i-th invocation of f.
TaskErr(i) == [msg |-> "task failed", is |-> "", invocation |-> i]
NilErr == [msg |-> "nil", is |-> "", invocation |-> 0]

\* A mutant of Capped: the cap is never applied.
Capped_Never(b, maxDuration) == b

\* `if backoff > s.MaxDuration { backoff = s.MaxDuration }`
Capped(b, maxDuration) == IF b > maxDuration THEN maxDuration ELSE b

\* `backoff *= 2`
Doubled(b) == b * 2

\* rand.Int63n(int64(s.MaxJitter)): a value in [0, MaxJitter)
Jitters(maxJitter) == 0..(maxJitter - 1)

\* `tries == int(s.MaxRetries)`
Exhausted(t, maxRetries) == t = maxRetries

\* s.Retry(f) up to the loop: `tries := 0; backoff := s.Initial`.
Retry(s) ==
    /\ rPc = "idle"
    /\ rPc' = "running"
    /\ strategy' = s
    /\ tries' = 0
    /\ backoff' = s.Initial
    /\ invocations' = 0
    /\ bases' = <<>>
    /\ lastSleep' = 0
    /\ rErr' = NilErr

\* A pass of the loop in which f returns nil: `return nil`.
TaskSucceeds ==
    /\ rPc = "running"
    /\ invocations < MaxInvocations
    /\ rPc' = "returned"
    /\ invocations' = invocations + 1
    /\ rErr' = NilErr
    /\ UNCHANGED <<strategy, tries, backoff, bases, lastSleep>>

\* A pass of the loop in which f returns an error: tries is incremented;
\* Retry returns the error when tries equals MaxRetries, and otherwise caps
\* backoff, sleeps backoff plus the jitter, and doubles backoff.
TaskFails(jitter) ==
    /\ rPc = "running"
    /\ invocations < MaxInvocations
    /\ invocations' = invocations + 1
    /\ tries' = tries + 1
    /\ IF Exhausted(tries', strategy.MaxRetries)
       THEN /\ rPc' = "returned"
            /\ rErr' = TaskErr(invocations')
            /\ UNCHANGED <<strategy, backoff, bases, lastSleep>>
       ELSE \E b \in {Capped(backoff, strategy.MaxDuration)} :
            /\ jitter \in Jitters(strategy.MaxJitter)
            /\ bases' = Append(bases, b)
            /\ lastSleep' = b + jitter
            /\ backoff' = Doubled(b)
            /\ UNCHANGED <<rPc, strategy, rErr>>

InitRetry ==
    /\ rPc = "idle"
    /\ strategy = NoStrategy
    /\ tries = 0
    /\ backoff = 0
    /\ invocations = 0
    /\ bases = <<>>
    /\ lastSleep = 0
    /\ rErr = NilErr

NextRetry ==
    \/ \E s \in Strategies : Retry(s) /\ UNCHANGED <<dbVars, listVars, svcVars, supVars, concVars>>
    \/ TaskSucceeds /\ UNCHANGED <<dbVars, listVars, svcVars, supVars, concVars>>
    \/ \E jitter \in 0..(MaxJitterCfg - 1) : TaskFails(jitter) /\ UNCHANGED <<dbVars, listVars, svcVars, supVars, concVars>>

--------------------------------------------------------------------------
\* The aggregation layer (Service, part_003) and its HTTP handlers (auth.go).
\* The Remote Directory is followed as the list of people it holds; the
\* Local Store as the tables of the first part plus EAC.PersonImage and
\* EAC.Person.

MaxCreds == 2           \* credentials in the list of one request

\* Errors of the aggregation layer. `is` is the sentinel found in the chain
\* ("" when none), `api` the message of the api.Errors value errors.As finds
\* in the chain ("" when none).
SNil == [msg |-> "nil", is |-> "", api |-> ""]
ErrInvalidID == [msg |-> "invalid id", is |-> "ErrInvalidID", api |-> ""]
ErrNotFound == [msg |-> "not found", is |-> "ErrNotFound", api |-> ""]

\* api.Errors{&Error{Msg: m}}
APIErrors(m) == [msg |-> m, is |-> "", api |-> m]

\* fmt.Errorf(msg + ": %w", err): a new error with err in its chain.
Wrapf(msg, err) ==
    [msg |-> msg, is |-> err.is, api |-> IF "api" \in DOMAIN err THEN err.api ELSE ""]

\* The messages the Remote Directory answers with.
BadgeCreateExists == "Badge credential could not be created because it already exists"
BadgeUpdateExists == "Badge credential could not be updated because it already exists"
RemoteNotFound == "NotFound"

\* strings.ToLower on the messages above.
ToLower(m) ==
    CASE m = BadgeCreateExists ->
            "badge credential could not be created because it already exists"
      [] m = BadgeUpdateExists ->
            "badge credential could not be updated because it already exists"
      [] m = RemoteNotFound -> "notfound"
      [] OTHER -> m

\* errors.As(err, &errs) and strings.Contains(strings.ToLower(e.Msg), s)
errorMatchesString(err, s) == err.api # "" /\ ToLower(err.api) = s

IsBadgeExistsError(err) ==
    \/ errorMatchesString(err, "badge credential could not be created because it already exists")
    \/ errorMatchesString(err, "badge credential could not be updated because it already exists")

IsNotFoundError(err) == errorMatchesString(err, "notfound")

\* The department the Remote Directory answers with for every person.
RemoteDepartment == "remote department"

\* What a request can fail at. step: "remote" (at: "badge", "transport"),
\* "picture" (at: a statement of UpdatePicture), "credential" (the k-th call
\* of CreateCredential, at: one of its statements), "read" (ReadPicture of the
\* update handler); rb: tx.Rollback fails too (with at = "none": after the
\* function returned an error of its own).
NoFault == [step |-> "none", k |-> 0, at |-> "none", rb |-> FALSE]

SvcFaults ==
    {NoFault}
    \cup { [step |-> "remote", k |-> 0, at |-> a, rb |-> FALSE] : a \in {"badge", "transport"} }
    \cup { [step |-> "picture", k |-> 0, at |-> a, rb |-> r] :
                a \in {"count", "write"}, r \in BOOLEAN }
    \cup { f \in [step : {"credential"}, k : 1..MaxCreds,
                  at : {"none", "query"}, rb : BOOLEAN] :
                f.at = "none" => f.rb }
    \cup { [step |-> "read", k |-> 0, at |-> "query", rb |-> FALSE] }

\* A fault of `step`, "none" when f is a fault of another step.
FaultAt(f, step) == IF f.step = step THEN f.at ELSE "none"

\* ---- Remote Directory (api.Conn) ----

\* The record of the person id in the list R; <<>> when there is none.
RemotePerson(R, id) == SelectSeq(R, LAMBDA p : p.ID = id)

\* api.Conn.CreatePerson: the directory assigns the identifier.
RemoteCreate(R, nid, primary, at) ==
    IF at = "transport"
    THEN [err |-> Wrapf("could not POST person", SNil), id |-> 0, R |-> R, nid |-> nid]
    ELSE IF at = "badge"
    THEN [err |-> APIErrors(BadgeCreateExists), id |-> 0, R |-> R, nid |-> nid]
    ELSE [err |-> SNil, id |-> nid, nid |-> nid + 1,
          R |-> Append(R, [ID |-> nid, SiteCode |-> primary[1], CardCode |-> primary[2],
                           Department |-> RemoteDepartment])]

\* api.Conn.UpdatePerson
RemoteUpdate(R, id, primary, at) ==
    IF at = "transport"
    THEN [err |-> Wrapf("could not PUT person", SNil), R |-> R]
    ELSE IF RemotePerson(R, id) = <<>>
    THEN [err |-> APIErrors(RemoteNotFound), R |-> R]
    ELSE IF at = "badge"
    THEN [err |-> APIErrors(BadgeUpdateExists), R |-> R]
    ELSE [err |-> SNil,
          R |-> [i \in 1..Len(R) |->
                    IF R[i].ID = id
                    THEN [R[i] EXCEPT !.SiteCode = primary[1], !.CardCode = primary[2]]
                    ELSE R[i]]]

\* api.Conn.ReadPerson
RemoteRead(R, id, at) ==
    IF at = "transport"
    THEN [err |-> Wrapf("could not GET person", SNil), p |-> <<>>]
    ELSE IF RemotePerson(R, id) = <<>>
    THEN [err |-> APIErrors(RemoteNotFound), p |-> <<>>]
    ELSE [err |-> SNil, p |-> RemotePerson(R, id)]

\* api.Conn.DeletePerson
RemoteDelete(R, id, at) ==
    IF at = "transport"
    THEN [err |-> Wrapf("could not DELETE person", SNil), R |-> R]
    ELSE IF RemotePerson(R, id) = <<>>
    THEN [err |-> APIErrors(RemoteNotFound), R |-> R]
    ELSE [err |-> SNil, R |-> SelectSeq(R, LAMBDA p : p.ID # id)]

\* ---- Local Store: pictures, departments, credential lists (db.Conn) ----

\* What a request carries as image: "nil" (no image field), "empty" (an image
\* field of no bytes), "bytes" (a photograph).
Images == {"nil", "empty", "bytes"}

\* len(buf)
ImageLen(buf) == IF buf = "bytes" THEN 1 ELSE 0

\* Conn.ReadPicture: sql.ErrNoRows becomes ErrNotFound; a NULL Image scans
\* into a nil buf with no error.
ReadPicture(P, id, at) ==
    IF at = "query"
    THEN [buf |-> "nil", err |-> Wrapf("could not query picture", SNil)]
    ELSE IF P[id] = "norow"
    THEN [buf |-> "nil", err |-> ErrNotFound]
    ELSE IF P[id] = "null"
    THEN [buf |-> "nil", err |-> SNil]
    ELSE [buf |-> P[id], err |-> SNil]

\* The value of the column Image written for buf: a nil slice is NULL.
StoredImage(buf) == IF buf = "nil" THEN "null" ELSE buf

\* The function UpdatePicture hands to WithTx, on the table P.
UpdatePictureFn(P, id, buf, at) ==
    LET out(err, P2, failed) ==
            [err |-> err, credID |-> 0, C |-> P2, W |-> {}, ident |-> 0, failed |-> failed]
    IN  IF at = "count"
        THEN out(Errorf("could not query row count"), P, "count")
        ELSE IF P[id] = "norow"
        THEN IF at = "write"
             THEN out(Errorf("could not insert image"), P, "write")
             ELSE out(Nil, [P EXCEPT ![id] = StoredImage(buf)], "none")
        ELSE IF at = "write"
        THEN out(Errorf("could not update image"), P, "write")
        ELSE out(Nil, [P EXCEPT ![id] = StoredImage(buf)], "none")

\* Conn.UpdatePicture: the function above inside WithTx.
UpdatePicture(P, id, buf, at, rollbackFails) ==
    WithTx(P, {}, 0, UpdatePictureFn(P, id, buf, at), at, rollbackFails, FALSE)

\* Conn.HasPictureIDs:
\* select Id from EAC.Person where Id in
\*   (select PersonId from EAC.PersonImage where Image is not null)
HasPictureIDs(E, P) ==
    { i \in DOMAIN E : E[i] # "norow" /\ i \in DOMAIN P /\ P[i] \notin {"norow", "null"} }

\* Conn.ListDepartments:
\* select Id, Department from EAC.Person where Department is not null
ListDepartments(E) ==
    [ i \in { j \in DOMAIN E : E[j] \notin {"norow", "null"} } |-> E[i] ]

\* depts[p.ID]: the zero value for a key the map does not hold.
MapString(m, k) == IF k \in DOMAIN m THEN m[k] ELSE ""

\* A Credential as the lists return it.
ListedCredential(c, w) ==
    [ID |-> c.Id, Active |-> c.IsActive, SiteCode |-> w.SiteCode, CardCode |-> w.CardCode]

\* The rows of the join of ListCredentials:
\* cred.PersonId = @p1 and cred.Id = wiegand.CredentialId
ListCredentialsRows(C, W, id) ==
    { ListedCredential(cw[1], cw[2]) :
        cw \in { x \in C \X W : x[1].PersonId = id /\ x[1].Id = x[2].CredentialId } }

\* The rows of the join of ListAllCredentials: cred.Id = wiegand.CredentialId
ListAllCredentialsRows(C, W) ==
    { [PersonId |-> cw[1].PersonId, cred |-> ListedCredential(cw[1], cw[2])] :
        cw \in { x \in C \X W : x[1].Id = x[2].CredentialId } }

\* The orders in which a query with no `order by` can return the rows S.
RowOrders(S) ==
    { s \in [1..Cardinality(S) -> S] : \A i, j \in 1..Cardinality(S) : i # j => s[i] # s[j] }

\* ---- Service.CreatePerson and Service.UpdatePerson: the credential loop ----

\* The loop over p.Credentials from index i on, for the person id with the
\* primary pair `primary`, on the tables C, W: every result the loop can end
\* with (the row QueryRow scans is not promised). calls lists the credentials
\* handed to CreateCredential so far.
RECURSIVE ReconcileFrom(_, _, _, _, _, _, _, _, _)
ReconcileFrom(C, W, ident, id, creds, i, primary, fault, calls) ==
    IF i > Len(creds)
    THEN { [err |-> SNil, C |-> C, W |-> W, ident |-> ident, calls |-> calls,
            failed |-> "none"] }
    ELSE IF creds[i].SiteCode = primary[1] /\ creds[i].CardCode = primary[2]
    THEN ReconcileFrom(C, W, ident, id, creds, i + 1, primary, fault, calls)
    ELSE LET at == IF fault.step = "credential" /\ fault.k = Len(calls) + 1
                   THEN fault.at ELSE "none"
             rb == fault.step = "credential" /\ fault.k = Len(calls) + 1 /\ fault.rb
         IN  UNION { UNION { UNION {
                IF tx.err # Nil
                THEN { [err |-> Wrapf("could not create credential", tx.err),
                        C |-> tx.C, W |-> tx.W, ident |-> tx.ident,
                        calls |-> Append(calls, creds[i]), failed |-> tx.failed] }
                ELSE ReconcileFrom(tx.C, tx.W, tx.ident, id, creds, i + 1, primary, fault,
                                   Append(calls, creds[i]))
                : tx \in {WithTx(C, W, ident, fn, at, rb, FALSE)} }
                : fn \in {CreateCredentialFn(C, W, ident, id, creds[i], at, row)} }
                : row \in QueryRow(MatchingRows(C, W, creds[i])) }

\* ---- The handlers ----

\* The record kept of a request that has been answered and whose response
\* the client has not taken yet; NoRequest when none is. id, primary, creds:
\* the person of the request; err: what the Service method returned;
\* code: the HTTP status; hasImage: has_image of the response; calls: the
\* credentials handed to CreateCredential, in order; result: the people of
\* the response of a read or a list.
NoRequest ==
    [op |-> "none", id |-> 0, primary |-> <<0, 0>>, creds |-> <<>>,
     err |-> SNil, code |-> 0, hasImage |-> FALSE, calls |-> <<>>, result |-> <<>>]

\* The person of a create or update request: primary pair, image, credentials.
RequestCredentials == { [Active |-> TRUE, SiteCode |-> p[1], CardCode |-> p[2]] : p \in CardPairs }

RECURSIVE SeqsUpTo(_, _)
SeqsUpTo(S, n) ==
    IF n = 0 THEN {<<>>}
    ELSE SeqsUpTo(S, n - 1) \cup { Append(s, x) : s \in SeqsUpTo(S, n - 1), x \in S }

RequestPersons ==
    [primary : CardPairs, image : Images, creds : SeqsUpTo(RequestCredentials, MaxCreds)]

\* The response is written and the stores are as the request left them.
Respond(op, id, p, err, code, hasImage, calls, result, R, nid, P, C, W, ident) ==
    /\ sLast' = [op |-> op, id |-> id, primary |-> p.primary, creds |-> p.creds,
                 err |-> err, code |-> code, hasImage |-> hasImage,
                 calls |-> calls, result |-> result]
    /\ remote' = R
    /\ remoteNextID' = nid
    /\ personImage' = P
    /\ credential' = C
    /\ wiegand' = W
    /\ nextIdentity' = ident
    /\ UNCHANGED <<eacPerson, evalOrder, last>>

\* The status CreatePersonHandler answers an error of CreatePerson with.
CreatePersonCode(err) == IF IsBadgeExistsError(err) THEN 409 ELSE 500

\* POST /people: CreatePersonHandler around Service.CreatePerson. The
\* has_image the client sent is overwritten (auth.go:139).
CreatePersonHandler(p, fault) ==
    /\ sLast.op = "none"
    /\ remoteNextID <= MaxPerson
    /\ fault.step # "read"
    /\ \E rc \in {RemoteCreate(remote, remoteNextID, p.primary, FaultAt(fault, "remote"))} :
        IF rc.err # SNil
        THEN \E err \in {Wrapf("could not create person", rc.err)} :
             Respond("create", 0, p, err, CreatePersonCode(err), FALSE, <<>>, <<>>,
                     remote, remoteNextID, personImage, credential, wiegand, nextIdentity)
        ELSE IF p.image = "nil"
        THEN /\ fault.step = "none"
             /\ Respond("create", rc.id, p, SNil, 200, ImageLen(p.image) # 0, <<>>, <<>>,
                        rc.R, rc.nid, personImage, credential, wiegand, nextIdentity)
        ELSE \E pic \in {UpdatePicture(personImage, rc.id, p.image,
                                       FaultAt(fault, "picture"), fault.step = "picture" /\ fault.rb)} :
             IF pic.err # Nil
             THEN \E err \in {Wrapf("could not update picture", pic.err)} :
                  Respond("create", rc.id, p, err, CreatePersonCode(err), FALSE, <<>>, <<>>,
                          rc.R, rc.nid, pic.C, credential, wiegand, nextIdentity)
             ELSE \E r \in ReconcileFrom(credential, wiegand, nextIdentity, rc.id, p.creds, 1,
                                         p.primary, fault, <<>>) :
                  /\ fault.step \in {"none", "credential"}
                  /\ fault.step = "credential" => r.failed \in {fault.at, "rollback"}
                  /\ (fault.step = "credential" /\ fault.rb) => r.failed = "rollback"
                  /\ r.ident <= MaxIdentity + 1
                  /\ IF r.err # SNil
                     THEN Respond("create", rc.id, p, r.err, CreatePersonCode(r.err), FALSE,
                                  r.calls, <<>>, rc.R, rc.nid, pic.C, r.C, r.W, r.ident)
                     ELSE Respond("create", rc.id, p, SNil, 200, ImageLen(p.image) # 0,
                                  r.calls, <<>>, rc.R, rc.nid, pic.C, r.C, r.W, r.ident)

\* The status UpdatePersonHandler answers an error of UpdatePerson with.
UpdatePersonCode(err) ==
    IF err = ErrInvalidID THEN 400
    ELSE IF IsNotFoundError(err) THEN 404
    ELSE IF IsBadgeExistsError(err) THEN 409
    ELSE 500

\* The end of UpdatePersonHandler after UpdatePerson returned nil, on the
\* picture table P: has_image is true when an image was sent, and otherwise
\* when ReadPicture returns no error.
UpdateResponse(P, id, image, hasImage, at) ==
    IF ImageLen(image) # 0
    THEN [code |-> 200, hasImage |-> TRUE]
    ELSE LET rp == ReadPicture(P, id, at)
         IN  IF rp.err # SNil
             THEN IF rp.err = ErrNotFound
                  THEN [code |-> 200, hasImage |-> hasImage]
                  ELSE [code |-> 500, hasImage |-> FALSE]
             ELSE [code |-> 200, hasImage |-> TRUE]

\* The has_image a client sends with an update: true (false is what the
\* handler sets it to anyway).
SentHasImage == {TRUE}

\* `// client can't set this` `p.HasImage = false`
ClientHasImage(sent) == FALSE

\* PUT /people/{id}: UpdatePersonHandler around Service.UpdatePerson.
UpdatePersonHandler(id, p, sentHasImage, fault) ==
    /\ sLast.op = "none"
    /\ \E hasImage \in {ClientHasImage(sentHasImage)} :
       IF id = 0
       THEN /\ fault = NoFault
            /\ Respond("update", id, p, ErrInvalidID, UpdatePersonCode(ErrInvalidID), FALSE,
                       <<>>, <<>>, remote, remoteNextID, personImage, credential, wiegand,
                       nextIdentity)
       ELSE
       \E ru \in {RemoteUpdate(remote, id, p.primary, FaultAt(fault, "remote"))} :
        IF ru.err # SNil
        THEN /\ fault.step \in {"none", "remote"}
             /\ fault.at = "badge" => ru.err.api = BadgeUpdateExists
             /\ \E err \in {Wrapf("could not update person", ru.err)} :
                Respond("update", id, p, err, UpdatePersonCode(err), FALSE, <<>>, <<>>,
                        remote, remoteNextID, personImage, credential, wiegand, nextIdentity)
        ELSE IF ImageLen(p.image) = 0
        THEN /\ fault.step \in {"none", "read"}
             /\ \E resp \in {UpdateResponse(personImage, id, p.image, hasImage,
                                            FaultAt(fault, "read"))} :
                Respond("update", id, p, SNil, resp.code, resp.hasImage, <<>>, <<>>,
                        ru.R, remoteNextID, personImage, credential, wiegand, nextIdentity)
        ELSE \E pic \in {UpdatePicture(personImage, id, p.image,
                                       FaultAt(fault, "picture"), fault.step = "picture" /\ fault.rb)} :
             IF pic.err # Nil
             THEN \E err \in {Wrapf("could not update picture", pic.err)} :
                  Respond("update", id, p, err, UpdatePersonCode(err), FALSE, <<>>, <<>>,
                          ru.R, remoteNextID, pic.C, credential, wiegand, nextIdentity)
             ELSE \E r \in ReconcileFrom(credential, wiegand, nextIdentity, id, p.creds, 1,
                                         p.primary, fault, <<>>) :
                  /\ fault.step \in {"none", "credential"}
                  /\ fault.step = "credential" => r.failed \in {fault.at, "rollback"}
                  /\ (fault.step = "credential" /\ fault.rb) => r.failed = "rollback"
                  /\ r.ident <= MaxIdentity + 1
                  /\ IF r.err # SNil
                     THEN Respond("update", id, p, r.err, UpdatePersonCode(r.err), FALSE,
                                  r.calls, <<>>, ru.R, remoteNextID, pic.C, r.C, r.W, r.ident)
                     ELSE \E resp \in {UpdateResponse(pic.C, id, p.image, hasImage, "none")} :
                          Respond("update", id, p, SNil, resp.code, resp.hasImage,
                                  r.calls, <<>>, ru.R, remoteNextID, pic.C, r.C, r.W, r.ident)

\* A slice of credentials: the nil slice, or a slice of the items s.
NilSlice == [isNil |-> TRUE, items |-> <<>>]
Slice(s) == [isNil |-> FALSE, items |-> s]

\* A Person as the aggregation layer answers it.
Projection(id, site, card, dept, hasImage, creds) ==
    [ID |-> id, SiteCode |-> site, CardCode |-> card, Department |-> dept,
     HasImage |-> hasImage, Credentials |-> creds]

\* The request of a handler that carries no person.
NoPerson == [primary |-> <<0, 0>>, image |-> "nil", creds |-> <<>>]

\* The status ReadPersonHandler answers an error of ReadPerson with.
ReadPersonCode(err) ==
    IF err = ErrInvalidID THEN 400
    ELSE IF IsNotFoundError(err) THEN 404
    ELSE 500

\* GET /people/{id}: ReadPersonHandler around Service.ReadPerson.
ReadPersonHandler(id, fault) ==
    /\ sLast.op = "none"
    /\ fault.step \in {"none", "remote", "read"}
    /\ fault.at # "badge"
    /\ \E rr \in {RemoteRead(remote, id, FaultAt(fault, "remote"))} :
        IF rr.err # SNil
        THEN \E err \in {Wrapf("could not read person", rr.err)} :
             /\ fault.step \in {"none", "remote"}
             /\ Respond("read", id, NoPerson, err, ReadPersonCode(err), FALSE, <<>>, <<>>,
                        remote, remoteNextID, personImage, credential, wiegand, nextIdentity)
        ELSE \E rp \in {ReadPicture(personImage, id, FaultAt(fault, "read"))} :
             IF rp.err # SNil /\ rp.err # ErrNotFound
             THEN \E err \in {Wrapf("could not read picture", rp.err)} :
                  Respond("read", id, NoPerson, err, ReadPersonCode(err), FALSE, <<>>, <<>>,
                          remote, remoteNextID, personImage, credential, wiegand, nextIdentity)
             ELSE \E creds \in RowOrders(ListCredentialsRows(credential, wiegand, id)) :
                  Respond("read", id, NoPerson, SNil, 200, ImageLen(rp.buf) # 0, <<>>,
                          << Projection(rr.p[1].ID, rr.p[1].SiteCode, rr.p[1].CardCode,
                                        rr.p[1].Department, ImageLen(rp.buf) # 0, Slice(creds)) >>,
                          remote, remoteNextID, personImage, credential, wiegand, nextIdentity)

\* The credentials Service.ListPeople attaches to the person id, from the map
\* ListAllCredentials builds of the rows in the order `rows`: a nil slice
\* when the map holds nothing for the person.
CredMapEntry(rows, id) ==
    LET own == SelectSeq(rows, LAMBDA r : r.PersonId = id)
    IN  IF Len(own) > 0 THEN Slice([i \in 1..Len(own) |-> own[i].cred]) ELSE NilSlice

\* A mutant of MergePeople: the department is taken from the record of the
\* Remote Directory.
MergePeople_RemoteDepartment(apiPeople, ids, depts, rows) ==
    [ idx \in 1..Len(apiPeople) |->
        Projection(apiPeople[idx].ID, apiPeople[idx].SiteCode, apiPeople[idx].CardCode,
                   apiPeople[idx].Department,
                   apiPeople[idx].ID \in ids,
                   CredMapEntry(rows, apiPeople[idx].ID)) ]

\* The loop of Service.ListPeople over apiPeople, with the picture
\* identifiers ids, the departments depts and the credential rows `rows`.
MergePeople(apiPeople, ids, depts, rows) ==
    [ idx \in 1..Len(apiPeople) |->
        Projection(apiPeople[idx].ID, apiPeople[idx].SiteCode, apiPeople[idx].CardCode,
                   MapString(depts, apiPeople[idx].ID),
                   apiPeople[idx].ID \in ids,
                   CredMapEntry(rows, apiPeople[idx].ID)) ]

\* What the list handler can fail at: the listing of the Remote Directory or
\* one of the three queries of the Local Store.
ListPersonFaults == {"none", "remote", "pictures", "departments", "credentials"}

\* GET /people: ListPersonHandler around Service.ListPeople.
ListPersonHandler(at) ==
    /\ sLast.op = "none"
    /\ IF at # "none"
       THEN \E err \in {Wrapf(CASE at = "remote" -> "could not list people"
                                [] at = "pictures" -> "could not list picture ids"
                                [] at = "departments" -> "could not list departments"
                                [] OTHER -> "could not list credentials", SNil)} :
            Respond("list", 0, NoPerson, err, 500, FALSE, <<>>, <<>>,
                    remote, remoteNextID, personImage, credential, wiegand, nextIdentity)
       ELSE \E rows \in RowOrders(ListAllCredentialsRows(credential, wiegand)) :
            Respond("list", 0, NoPerson, SNil, 200, FALSE, <<>>,
                    MergePeople(remote, HasPictureIDs(eacPerson, personImage),
                                ListDepartments(eacPerson), rows),
                    remote, remoteNextID, personImage, credential, wiegand, nextIdentity)

\* The status DeletePersonHandler answers an error of DeletePerson with.
DeletePersonCode(err) == IF IsNotFoundError(err) THEN 404 ELSE 500

\* DELETE /people/{id}: DeletePersonHandler around Service.DeletePerson. The
\* rows of the Local Store are left in place.
DeletePersonHandler(id, at) ==
    /\ sLast.op = "none"
    /\ \E rd \in {RemoteDelete(remote, id, at)} :
        IF rd.err # SNil
        THEN \E err \in {Wrapf("could not delete person", rd.err)} :
             Respond("delete", id, NoPerson, err, DeletePersonCode(err), FALSE, <<>>, <<>>,
                     remote, remoteNextID, personImage, credential, wiegand, nextIdentity)
        ELSE Respond("delete", id, NoPerson, SNil, 200, FALSE, <<>>, <<>>,
                     rd.R, remoteNextID, personImage, credential, wiegand, nextIdentity)

\* The client takes the response.
ResponseTaken ==
    /\ sLast.op # "none"
    /\ sLast' = NoRequest
    /\ UNCHANGED <<remote, remoteNextID, personImage, eacPerson, dbVars>>

\* The table EAC.Person the model starts from: person 1 has a department,
\* the others a NULL one.
EACTables == { [i \in Persons |-> IF i = 1 THEN "hr" ELSE "null"] }

\* The table EAC.PersonImage the model starts from: no row for person 1, a
\* row with a NULL image for the others (written by the access control
\* server).
PersonImageTables == { [i \in Persons |-> IF i = 1 THEN "norow" ELSE "null"] }

\* An empty Remote Directory, and a Local Store with one of the tables
\* `images` and one of the tables `persons`.
InitStores(images, persons) ==
    /\ remote = <<>>
    /\ remoteNextID = 1
    /\ personImage \in images
    /\ eacPerson \in persons
    /\ sLast = NoRequest

InitSvc == InitStores(PersonImageTables, EACTables)

\* The stores the parts that do not read them are followed with.
InitNoSvc == InitStores({[i \in Persons |-> "norow"]}, {[i \in Persons |-> "null"]})

NextSvc ==
    \/ \E p \in RequestPersons, fault \in SvcFaults :
            CreatePersonHandler(p, fault) /\ UNCHANGED <<listVars, retryVars, supVars, concVars>>
    \/ \E id \in 0..MaxPerson, p \in RequestPersons, sent \in SentHasImage, fault \in SvcFaults :
            UpdatePersonHandler(id, p, sent, fault) /\ UNCHANGED <<listVars, retryVars, supVars, concVars>>
    \/ \E id \in Persons, fault \in SvcFaults :
            ReadPersonHandler(id, fault) /\ UNCHANGED <<listVars, retryVars, supVars, concVars>>
    \/ \E at \in ListPersonFaults :
            ListPersonHandler(at) /\ UNCHANGED <<listVars, retryVars, supVars, concVars>>
    \/ \E id \in Persons, at \in {"none", "transport"} :
            DeletePersonHandler(id, at) /\ UNCHANGED <<listVars, retryVars, supVars, concVars>>
    \/ ResponseTaken /\ UNCHANGED <<listVars, retryVars, supVars, concVars>>

--------------------------------------------------------------------------
\* Service.Start (part_000): a goroutine runs DefaultRetryStrategy.Retry
\* around main and calls s.cancel() when Retry has returned.
\* DefaultRetryStrategy is a package variable; the value the source gives it
\* (1s, 9999, 60s, 1s) is beyond the bounds, so Start is followed with every
\* strategy of the bounds. The loop of Retry is the one of the part above.

\* A mutant of RetryReturned: the goroutine does not wait for Retry.
RetryReturned_NotAwaited == rPc # "idle"

\* `s.cancel()` follows the call of Retry in the goroutine: it is reached
\* when Retry has returned.
RetryReturned == rPc = "returned"

\* DefaultRetryStrategy (retry.go:42) has a positive MaxRetries.
DefaultRetryStrategies == { s \in Strategies : s.MaxRetries >= 1 }

\* Service.Start: `go func() { ... DefaultRetryStrategy.Retry(...) ... }()`
Start(s) ==
    /\ Retry(s)
    /\ UNCHANGED cancelled

\* main returns nil: Retry returns nil.
MainReturns ==
    /\ TaskSucceeds
    /\ UNCHANGED cancelled

\* main returns an error: Retry counts it and backs off, or gives up.
MainFails(jitter) ==
    /\ TaskFails(jitter)
    /\ UNCHANGED cancelled

\* `s.cancel()`
Cancel ==
    /\ RetryReturned
    /\ ~cancelled
    /\ cancelled' = TRUE
    /\ UNCHANGED retryVars

\* The step of the goroutine that calls s.cancel().
CancelStep == Cancel /\ UNCHANGED <<dbVars, listVars, svcVars, concVars>>

InitSup == cancelled = FALSE

NextSup ==
    \/ \E s \in DefaultRetryStrategies :
            Start(s) /\ UNCHANGED <<dbVars, listVars, svcVars, concVars>>
    \/ MainReturns /\ UNCHANGED <<dbVars, listVars, svcVars, concVars>>
    \/ \E jitter \in 0..(MaxJitterCfg - 1) :
            MainFails(jitter) /\ UNCHANGED <<dbVars, listVars, svcVars, concVars>>
    \/ CancelStep

--------------------------------------------------------------------------
\* Two connections run Conn.CreateCredential at the same time: the
\* statements of WithTx and of the function it runs, one step each. The store
\* gives read-committed isolation: a statement reads the committed rows and
\* the rows its own transaction wrote. What a transaction has written is
\* kept with the transaction until Commit applies it or Rollback drops it.
\* The identity counter is not transactional.

Txs == {1, 2}

NoTx == [pc |-> "idle", id |-> 0, cred |-> NoCall.cred, credID |-> 0,
         ins |-> {}, bind |-> {}, upd |-> FALSE, err |-> Nil]

\* The card-binding row the insert of CreateCredential writes.
BindingRow(cred, credID) ==
    [SiteCode |-> cred.SiteCode, CardCode |-> cred.CardCode,
     CredentialId |-> credID, CustomerZoneId |-> CustomerZoneId]

SamePair(a, b) == a.SiteCode = b.SiteCode /\ a.CardCode = b.CardCode

\* The unique index on the card pair of EAC.WiegandCredential, when the
\* table has one: an insert of a pair a committed row holds fails with a
\* duplicate key error.
DuplicateKey(W, w) == uniqueIndex /\ \E b \in W : SamePair(b, w)

\* The same index makes an insert wait while another transaction holds an
\* uncommitted row of the pair, until that transaction commits or rolls back.
WaitsForKey(t, w) ==
    uniqueIndex /\ \E u \in Txs \ {t} : \E b \in txs[u].bind : SamePair(b, w)

\* A mutant of AfterRollback: the rows the transaction inserted stay.
AfterRollback_Kept(C, ins) == C \cup ins

\* tx.Rollback(): the store is as it was, whatever the transaction wrote.
AfterRollback(C, ins) == C

\* c.Begin() of WithTx, for CreateCredential(id, cred).
TxBegin(t, id, cred) ==
    /\ txs[t].pc = "idle"
    /\ txs' = [txs EXCEPT ![t] = [NoTx EXCEPT !.pc = "select", !.id = id, !.cred = cred]]
    /\ UNCHANGED <<credential, wiegand, nextIdentity, evalOrder, last, uniqueIndex>>

\* The select of CreateCredential, its Scan, and the three tests on what it
\* scanned.
TxSelect(t) ==
    /\ txs[t].pc = "select"
    /\ \E row \in QueryRow(MatchingRows(credential, wiegand, txs[t].cred)) :
        txs' = [txs EXCEPT ![t] =
            [@ EXCEPT
                !.credID = row.Id,
                !.err = IF ExistsForAnother(row.Id, row.PersonId, txs[t].id)
                        THEN ErrCredentialExists ELSE Nil,
                !.pc = IF ExistsForAnother(row.Id, row.PersonId, txs[t].id)
                       THEN "rollback"
                       ELSE IF ExistsAndMatches(row.Id, row.PersonId, row.IsActive,
                                                txs[t].id, txs[t].cred)
                       THEN "commit"
                       ELSE IF ExistsMismatched(row.Id, row.PersonId, txs[t].id)
                       THEN "update"
                       ELSE "insert"]]
    /\ UNCHANGED <<credential, wiegand, nextIdentity, evalOrder, last, uniqueIndex>>

\* update EAC.Credential set IsActive = @p1 where Id = @p2
TxUpdate(t) ==
    /\ txs[t].pc = "update"
    /\ txs' = [txs EXCEPT ![t] = [@ EXCEPT !.upd = TRUE, !.pc = "commit"]]
    /\ UNCHANGED <<credential, wiegand, nextIdentity, evalOrder, last, uniqueIndex>>

\* insert into EAC.Credential ...; select SCOPE_IDENTITY(), and the test
\* `credID < 1`.
TxInsertCredential(t) ==
    /\ txs[t].pc = "insert"
    /\ nextIdentity <= MaxIdentity
    /\ nextIdentity' = nextIdentity + 1
    /\ txs' = [txs EXCEPT ![t] =
            [@ EXCEPT
                !.credID = nextIdentity,
                !.ins = {[Id |-> nextIdentity, PersonId |-> txs[t].id,
                          IsActive |-> txs[t].cred.Active]},
                !.err = IF nextIdentity < 1
                        THEN Errorf("unexpected credential id") ELSE Nil,
                !.pc = IF nextIdentity < 1 THEN "rollback" ELSE "insertWiegand"]]
    /\ UNCHANGED <<credential, wiegand, evalOrder, last, uniqueIndex>>

\* insert into EAC.WiegandCredential ...
TxInsertWiegand(t) ==
    /\ txs[t].pc = "insertWiegand"
    /\ \E w \in {BindingRow(txs[t].cred, txs[t].credID)} :
        /\ ~WaitsForKey(t, w)
        /\ txs' = [txs EXCEPT ![t] =
                IF DuplicateKey(wiegand, w)
                THEN [@ EXCEPT !.err = Errorf("could not create wiegand credential"),
                               !.pc = "rollback"]
                ELSE [@ EXCEPT !.bind = {w}, !.pc = "commit"]]
    /\ UNCHANGED <<credential, wiegand, nextIdentity, evalOrder, last, uniqueIndex>>

\* tx.Commit(): what the transaction wrote becomes the store's.
TxCommit(t) ==
    /\ txs[t].pc = "commit"
    /\ credential' = (IF txs[t].upd
                      THEN UpdateIsActive(credential, txs[t].credID, txs[t].cred.Active)
                      ELSE credential) \cup txs[t].ins
    /\ wiegand' = wiegand \cup txs[t].bind
    /\ txs' = [txs EXCEPT ![t] = [@ EXCEPT !.bind = {}, !.pc = "done"]]
    /\ UNCHANGED <<nextIdentity, evalOrder, last, uniqueIndex>>

\* tx.Rollback(), and the return of the error of the function.
TxRollback(t) ==
    /\ txs[t].pc = "rollback"
    /\ credential' = AfterRollback(credential, txs[t].ins)
    /\ txs' = [txs EXCEPT ![t] = [@ EXCEPT !.bind = {}, !.pc = "done"]]
    /\ UNCHANGED <<wiegand, nextIdentity, evalOrder, last, uniqueIndex>>

\* The store with the tables in `indexes` (with or without the unique
\* index), and the transactions of T, none of them begun.
InitTx(indexes, T) ==
    /\ uniqueIndex \in indexes
    /\ txs = [t \in T |-> NoTx]

InitConc == InitTx(BOOLEAN, Txs)

\* The parts that run one call at a time have no transaction in flight.
InitNoConc == InitTx({TRUE}, {})

NextConc ==
    \/ \E t \in Txs, id \in Persons, cred \in Credentials :
            TxBegin(t, id, cred) /\ UNCHANGED <<listVars, retryVars, svcVars, supVars>>
    \/ \E t \in Txs : TxSelect(t) /\ UNCHANGED <<listVars, retryVars, svcVars, supVars>>
    \/ \E t \in Txs : TxUpdate(t) /\ UNCHANGED <<listVars, retryVars, svcVars, supVars>>
    \/ \E t \in Txs : TxInsertCredential(t) /\ UNCHANGED <<listVars, retryVars, svcVars, supVars>>
    \/ \E t \in Txs : TxInsertWiegand(t) /\ UNCHANGED <<listVars, retryVars, svcVars, supVars>>
    \/ \E t \in Txs : TxCommit(t) /\ UNCHANGED <<listVars, retryVars, svcVars, supVars>>
    \/ \E t \in Txs : TxRollback(t) /\ UNCHANGED <<listVars, retryVars, svcVars, supVars>>

--------------------------------------------------------------------------
Init == InitDB /\ InitList /\ InitRetry /\ InitNoSvc /\ InitSup /\ InitNoConc

vars == <<credential, wiegand, nextIdentity, evalOrder, last,
          lPc, lKind, srvN, people, total, count, lResult, lErr, trace,
          rPc, strategy, tries, backoff, invocations, bases, lastSleep, rErr,
          remote, remoteNextID, personImage, eacPerson, sLast,
          cancelled, uniqueIndex, txs>>

SpecDB == Init /\ [][NextDB]_vars

\* The listing and the retry supervisor do not read evalOrder: one build is
\* followed.
InitOneBuild ==
    InitStore({"callFirst"}) /\ InitList /\ InitRetry /\ InitNoSvc /\ InitSup /\ InitNoConc

SpecList == InitOneBuild /\ [][NextList]_vars

SpecRetry == InitOneBuild /\ [][NextRetry]_vars

InitService ==
    InitStore({"callFirst"}) /\ InitList /\ InitRetry /\ InitSvc /\ InitSup /\ InitNoConc

SpecSvc == InitService /\ [][NextSvc]_vars

InitConcurrent ==
    InitStore({"callFirst"}) /\ InitList /\ InitRetry /\ InitNoSvc /\ InitSup /\ InitConc

SpecConc == InitConcurrent /\ [][NextConc]_vars

\* The goroutine of Start is runnable once Retry has returned, and the
\* scheduler runs it: the call of s.cancel() is not postponed forever.
SpecSup == InitOneBuild /\ [][NextSup]_vars /\ WF_vars(CancelStep)

--------------------------------------------------------------------------
\* What the claims about the Local Store are stated with: the tables read
\* directly, not through the operators that model the code.

\* The credential rows bound to the card pair of cred in zone 1.
RowsOfPair(C, W, cred) ==
    { c \in C : \E w \in W : w.CredentialId = c.Id /\ w.CustomerZoneId = 1
                             /\ <<w.SiteCode, w.CardCode>> = <<cred.SiteCode, cred.CardCode>> }

\* The card-binding rows of the card pair of cred in zone 1.
BindingsOfPair(W, cred) ==
    { w \in W : w.CustomerZoneId = 1
                /\ <<w.SiteCode, w.CardCode>> = <<cred.SiteCode, cred.CardCode>> }

StoreUnchanged == credential' = credential /\ wiegand' = wiegand

\* C1: when the card pair is already bound to another person, CreateCredential
\* fails (with ErrCredentialExists unless the storage itself failed), and the
\* store is as before the call: one credential row and one card-binding row
\* for the pair, owner and active flag untouched.
C1_ConflictLeavesStore ==
    [][ ( /\ last'.op = "create"
          /\ \E c \in RowsOfPair(credential, wiegand, last'.cred) : c.PersonId # last'.id )
        => /\ last'.err # Nil
           /\ last'.failed = "none" => last'.err = ErrCredentialExists
           /\ StoreUnchanged
           /\ Cardinality(RowsOfPair(credential', wiegand', last'.cred)) = 1
           /\ Cardinality(BindingsOfPair(wiegand', last'.cred)) = 1 ]_vars

\* C1 witness: a call was rejected with ErrCredentialExists and the pair is
\* still bound to the other person.
C1_Witness ==
    /\ last.op = "create"
    /\ last.err = ErrCredentialExists
    /\ \E c \in RowsOfPair(credential, wiegand, last.cred) : c.PersonId # last.id

\* C2: every card pair of zone 1 is bound by at most one credential row (and
\* one card-binding row), hence held by at most one person.
C2_CardUnique ==
    \A cred \in Credentials :
        /\ Cardinality(RowsOfPair(credential, wiegand, cred)) <= 1
        /\ Cardinality(BindingsOfPair(wiegand, cred)) <= 1
        /\ \A c, d \in RowsOfPair(credential, wiegand, cred) : c.PersonId = d.PersonId

\* C2 witness: both card pairs are bound, to different persons, and the last
\* call was a create on a bound pair.
C2_Witness ==
    /\ \E c, d \in credential : c.Id # d.Id /\ c.PersonId # d.PersonId
    /\ \A p \in CardPairs :
          RowsOfPair(credential, wiegand, [SiteCode |-> p[1], CardCode |-> p[2]]) # {}
    /\ last.op = "create"
    /\ last.err # Nil

C3_SecondCallWritesNothing ==
    [][ (last'.op = "create" /\ last'.again /\ last'.failed = "none")
        => (last'.err = Nil /\ StoreUnchanged /\ nextIdentity' = nextIdentity) ]_vars

C4_FlipStoreOnly ==
    [][ \A c \in RowsOfPair(credential, wiegand, last'.cred) :
          ( /\ last'.op = "create" /\ last'.failed = "none"
            /\ c.PersonId = last'.id /\ c.IsActive # last'.cred.Active )
          => /\ last'.err = Nil
             /\ credential' = (credential \ {c})
                                \cup {[Id |-> c.Id, PersonId |-> c.PersonId,
                                       IsActive |-> last'.cred.Active]}
             /\ wiegand' = wiegand
             /\ nextIdentity' = nextIdentity ]_vars

C5_InsertStoreOnly ==
    [][ ( /\ last'.op = "create" /\ last'.failed = "none"
          /\ RowsOfPair(credential, wiegand, last'.cred) = {} )
        => /\ last'.err = Nil
           /\ \E n \in 1..MaxIdentity :
                /\ \A c \in credential : c.Id # n
                /\ credential' = credential \cup {[Id |-> n, PersonId |-> last'.id,
                                                   IsActive |-> last'.cred.Active]}
                /\ wiegand' = wiegand \cup {[SiteCode |-> last'.cred.SiteCode,
                                             CardCode |-> last'.cred.CardCode,
                                             CredentialId |-> n, CustomerZoneId |-> 1]} ]_vars

\* C6: DeleteCredential of an identifier that does not exist or belongs to
\* another person leaves both tables as they were, and returns no error
\* unless the storage itself failed.
C6_ForeignDeleteNoOp ==
    [][ ( /\ last'.op = "delete"
          /\ ~ \E c \in credential : c.Id = last'.credID /\ c.PersonId = last'.id )
        => /\ StoreUnchanged
           /\ last'.failed = "none" => last'.err = Nil ]_vars

\* C6 witness: a delete of another person's credential returned no error and
\* the credential and its card binding are still there.
C6_Witness ==
    /\ last.op = "delete"
    /\ last.err = Nil
    /\ \E c \in credential : /\ c.Id = last.credID /\ c.PersonId # last.id
                             /\ \E w \in wiegand : w.CredentialId = c.Id

--------------------------------------------------------------------------
\* What the claims about the listing are stated with.

\* The list of all n items of the server, in order.
AllItems(n) == [j \in 1..n |-> [ID |-> 100 + j]]

\* C7: against a server that holds srvN items, declares srvN on every page
\* and returns a non-empty run from the offset asked, every request asks for
\* the offset equal to the number of items accumulated (0 at first), no
\* request follows once srvN items are accumulated, and the list returned is
\* the srvN items in order, none missing and none repeated.
C7_ListingComplete ==
    trace.honest =>
        /\ trace.requests = trace.accumulated
        /\ trace.requests # <<>> => trace.requests[1] = 0
        /\ \A i \in 2..Len(trace.requests) : trace.requests[i] < srvN
        /\ people = AllItems(Len(people))
        /\ (lPc = "done" /\ lErr = Nil) => lResult = AllItems(srvN)

\* C7 witness: five items listed over pages of 2 + 2 + 1.
C7_Witness ==
    /\ lPc = "done" /\ lErr = Nil /\ trace.honest
    /\ srvN = 5
    /\ trace.requests = <<0, 2, 4>>
    /\ lResult = AllItems(5)

\* C8: when the first page declares total 0, the listing makes exactly one
\* request, for offset 0, and returns without error; the list returned is
\* empty (a page that declares total 0 carries no item).
C8_ZeroTotal ==
    (trace.first # <<>> /\ trace.first[1].Count = 0) =>
        /\ trace.requests = <<0>>
        /\ lPc = "done" => lErr = Nil
        /\ (lPc = "done" /\ trace.first[1].n = 0) => lResult = <<>>

\* C8 witness: a listing of an empty server has returned.
C8_Witness ==
    /\ lPc = "done" /\ srvN = 0
    /\ trace.first # <<>> /\ trace.first[1].Count = 0 /\ trace.first[1].n = 0
    /\ trace.requests = <<0>> /\ lResult = <<>> /\ lErr = Nil

\* C9 as claimed: a listing in which a page declared a negative total, or a
\* total below the total of an earlier page, returns an error.
C9_MalformedIsError ==
    (lPc = "done" /\ trace.malformed) => lErr # Nil

\* C9 as amended: totals are trusted, not validated. A listing in which no
\* request failed returns no error and the items accumulated so far, as soon
\* as their number is not below the total declared last; a request is made
\* only while it is below it.
C9_TotalsTrusted ==
    /\ [] ( (lPc = "done" /\ ~trace.faulted)
            => (lErr = Nil /\ lResult = people /\ ~(Len(lResult) < total)) )
    /\ [][ Len(trace'.requests) > Len(trace.requests) => count < total ]_vars

\* C9 witness: a page declared a negative or decreasing total and the
\* listing returned, without error, fewer items than the server holds.
C9_Witness ==
    /\ lPc = "done" /\ trace.malformed /\ ~trace.faulted
    /\ lErr = Nil
    /\ Len(lResult) < srvN

--------------------------------------------------------------------------
\* What the claim about the backoff schedule is stated with.

RECURSIVE Pow2(_)
Pow2(k) == IF k = 0 THEN 1 ELSE 2 * Pow2(k - 1)

Min(a, b) == IF a < b THEN a ELSE b

\* C10: the k-th sleep (k from 0) lasts min(Initial * 2^k, MaxDuration) plus a
\* jitter in [0, MaxJitter); there is one sleep after every failed invocation
\* that is followed by another; backoff never grows beyond twice MaxDuration.
\* With MaxRetries = 5, Retry does not give up before the fifth failure; with
\* Initial = 1 and MaxDuration >= 4, a return of nil at the fourth invocation
\* follows sleeps of base 1, 2, 4.
C10_BackoffSchedule ==
    /\ \A k \in 1..Len(bases) :
          /\ bases[k] = Min(strategy.Initial * Pow2(k - 1), strategy.MaxDuration)
          /\ bases[k] <= strategy.MaxDuration
    /\ bases # <<>> => (lastSleep - bases[Len(bases)]) \in 0..(strategy.MaxJitter - 1)
    /\ rPc = "running" => Len(bases) = invocations
    /\ rPc = "returned" => Len(bases) = invocations - 1
    /\ backoff <= 2 * strategy.MaxDuration \/ backoff <= strategy.Initial
    /\ (rPc = "returned" /\ rErr # NilErr /\ strategy.MaxRetries = 5) => invocations = 5
    /\ ( /\ rPc = "returned" /\ rErr = NilErr /\ invocations = 4
         /\ strategy.Initial = 1 /\ strategy.MaxDuration >= 4 )
       => bases = <<1, 2, 4>>

\* C10 witness: MaxRetries = 5, Initial = 1: three failures, then success at
\* the fourth invocation, after sleeps of base 1, 2, 4.
C10_Witness ==
    /\ rPc = "returned" /\ rErr = NilErr
    /\ strategy.MaxRetries = 5 /\ strategy.Initial = 1
    /\ invocations = 4
    /\ bases = <<1, 2, 4>>

--------------------------------------------------------------------------
\* What the claim about the retry budget is stated with.

Max(a, b) == IF a > b THEN a ELSE b

\* The failed invocations a strategy allows before Retry gives up: MaxRetries,
\* and one for MaxRetries = 0 (the task is invoked before anything is
\* counted).
Budget(maxRetries) == Max(maxRetries, 1)

\* C11: with a task that fails on every invocation, Retry keeps running only
\* while fewer invocations than the budget of MaxRetries have failed (for
\* every MaxRetries, 0 and 1 included); when it returns an error it is the
\* error of the last invocation, after exactly MaxRetries invocations; when
\* it returns nil it has neither slept nor counted a try after the successful
\* invocation.
C11_RetryBudget ==
    /\ rPc = "running" => invocations < Budget(strategy.MaxRetries)
    /\ (rPc = "returned" /\ rErr # NilErr) =>
          /\ rErr = TaskErr(invocations)
          /\ invocations = strategy.MaxRetries
    /\ (rPc = "returned" /\ rErr = NilErr) =>
          /\ tries = invocations - 1
          /\ Len(bases) = invocations - 1

\* The part of C11 that holds: the same for MaxRetries >= 1.
C11_PositiveBudget ==
    strategy.MaxRetries >= 1 => C11_RetryBudget

\* Once Retry has returned, the task is never invoked again.
C11_NoInvocationAfterReturn ==
    [][rPc = "returned" => invocations' = invocations]_vars

\* MaxRetries = 0: Retry is still running after more failures than any
\* budget of the model's strategies.
C11_ZeroNeverExhausts ==
    /\ rPc = "running" /\ strategy.MaxRetries = 0
    /\ invocations > MaxRetriesCfg

--------------------------------------------------------------------------
\* What the claims about the aggregation layer are stated with: the request
\* and the response kept in sLast, and the stores read directly.

\* A create or update request has been answered.
Mutated == sLast.op \in {"create", "update"}

\* The credentials of the request that differ from its primary pair, in list
\* order.
NotPrimary(creds, primary) ==
    SelectSeq(creds, LAMBDA c : <<c.SiteCode, c.CardCode>> # primary)

\* C12: after a create or update that succeeded, the credentials handed to
\* the Credential Reconciler are exactly the supplied credentials that differ
\* from the primary pair, each once and in list order, whether or not a
\* photograph was supplied.
C12_EveryCredentialReconciled ==
    (Mutated /\ sLast.err = SNil) =>
        sLast.calls = NotPrimary(sLast.creds, sLast.primary)

\* The part of C12 that holds: the same for the calls that wrote a picture
\* (a photograph was supplied).
C12_ReconciledWithPhotograph ==
    [][(Mutated' /\ sLast'.err = SNil /\ personImage' # personImage) =>
            sLast'.calls = NotPrimary(sLast'.creds, sLast'.primary)]_vars

\* A request without a photograph and with a credential that differs from
\* the primary pair succeeded, and nothing was handed to the reconciler.
C12_SkippedWithoutPhotograph ==
    /\ Mutated /\ sLast.err = SNil
    /\ NotPrimary(sLast.creds, sLast.primary) # <<>>
    /\ sLast.calls = <<>>

\* C13: after an update that was answered with 200, has_image of the
\* response is true exactly when EAC.PersonImage holds a photograph of at
\* least one byte for the person.
C13_HasImageIsStoreState ==
    (sLast.op = "update" /\ sLast.code = 200) =>
        (sLast.hasImage <=> personImage[sLast.id] = "bytes")

\* The part of C13 that holds: has_image is true exactly when
\* EAC.PersonImage has a row for the person.
C13_HasImageIsRowExists ==
    (sLast.op = "update" /\ sLast.code = 200) =>
        (sLast.hasImage <=> personImage[sLast.id] # "norow")

\* C14: a create or update that returns an error leaves the Remote
\* Directory, the pictures and the credential tables as they were.
C14_ErrorLeavesStores ==
    [][(Mutated' /\ sLast'.err # SNil) =>
            /\ remote' = remote
            /\ personImage' = personImage
            /\ credential' = credential
            /\ wiegand' = wiegand]_vars

\* The part of C14 that holds: the same for the errors of the first step
\* (the identifier check and the write to the Remote Directory).
C14_RemoteErrorLeavesStores ==
    [][(Mutated' /\ sLast'.err.msg \in {"invalid id", "could not create person",
                                        "could not update person"}) =>
            /\ remote' = remote
            /\ personImage' = personImage
            /\ credential' = credential
            /\ wiegand' = wiegand]_vars

\* C15: a create or update that fails because the card is bound to another
\* person (the error is ErrCredentialExists) is answered with 409, and never
\* with the 500 of a database error.
C15_ConflictIs409 ==
    (Mutated /\ sLast.err.is = "ErrCredentialExists") => sLast.code = 409

\* The part of C15 that holds: the "already exists" answers of the Remote
\* Directory are answered with 409, and every other error of a step after
\* the remote write with 500.
C15_BadgeIs409 ==
    /\ (Mutated /\ sLast.err.api \in {BadgeCreateExists, BadgeUpdateExists}) => sLast.code = 409
    /\ (Mutated /\ sLast.err.msg \in {"could not update picture", "could not create credential"})
            => sLast.code = 500

\* The Local Store credentials owned by the person id: the rows of
\* EAC.Credential of the person, each with the card of its binding.
OwnedCredentials(id) ==
    { [ID |-> c.Id, Active |-> c.IsActive, SiteCode |-> w.SiteCode, CardCode |-> w.CardCode] :
        c \in { x \in credential : x.PersonId = id },
        w \in { y \in wiegand : \E x \in credential : x.PersonId = id /\ y.CredentialId = x.Id } }
    \cap UNION { { [ID |-> c.Id, Active |-> c.IsActive, SiteCode |-> w.SiteCode,
                    CardCode |-> w.CardCode] : w \in { y \in wiegand : y.CredentialId = c.Id } } :
                 c \in credential }

\* The elements of a credential list of a response.
Listed(creds) == { creds.items[i] : i \in 1..Len(creds.items) }

\* C16: the people ListPeople answers are the records of the Remote
\* Directory, one each and in its order; has_image tells whether the Local
\* Store lists the identifier among those with a non-null photograph;
\* department is the one of the Local Store, empty when it has none, never
\* the one of the Remote Directory; credentials are the Local Store
\* credentials owned by the identifier, each once, and nil when there are
\* none. Nothing of the Local Store appears for an identifier the Remote
\* Directory does not list.
C16_ListMerge ==
    (sLast.op = "list" /\ sLast.err = SNil) =>
        /\ Len(sLast.result) = Len(remote)
        /\ \A idx \in 1..Len(remote) :
            LET r == sLast.result[idx]
                i == remote[idx].ID
            IN  /\ r.ID = i
                /\ r.SiteCode = remote[idx].SiteCode /\ r.CardCode = remote[idx].CardCode
                /\ r.HasImage <=> ( /\ eacPerson[i] # "norow"
                                    /\ personImage[i] \notin {"norow", "null"} )
                /\ r.Department = (IF eacPerson[i] \in {"norow", "null"} THEN "" ELSE eacPerson[i])
                /\ r.Department # RemoteDepartment
                /\ Listed(r.Credentials) = OwnedCredentials(i)
                /\ r.Credentials.isNil <=> OwnedCredentials(i) = {}
                /\ Len(r.Credentials.items) = Cardinality(OwnedCredentials(i))

\* C16 witness: a list of two people; the first has a photograph, a
\* department and a credential; the second has none of them in the Local
\* Store (a NULL image, no department, no credential) and is listed with
\* has_image false, an empty department and nil credentials.
C16_Witness ==
    /\ sLast.op = "list" /\ sLast.err = SNil
    /\ Len(sLast.result) = 2
    /\ sLast.result[1].HasImage /\ sLast.result[1].Department = "hr"
    /\ ~sLast.result[1].Credentials.isNil
    /\ ~sLast.result[2].HasImage /\ sLast.result[2].Department = ""
    /\ sLast.result[2].Credentials.isNil

\* The Local Store holds credentials and a photograph of a person the Remote
\* Directory does not list any more, and the list answers the other person
\* only.
C16_OrphansNotListed ==
    /\ sLast.op = "list" /\ sLast.err = SNil
    /\ Len(sLast.result) = 1
    /\ \E i \in Persons :
        /\ \A idx \in 1..Len(remote) : remote[idx].ID # i
        /\ OwnedCredentials(i) # {}
        /\ personImage[i] = "bytes"

--------------------------------------------------------------------------
\* C17. In Service.Start the cancellation signal is triggered only after
\* Retry has returned: it is never triggered while main runs or while Retry
\* backs off before another attempt, the step that triggers it is taken
\* from a state in which Retry has returned, and once the retry budget is
\* exhausted (Retry has returned the error of main) it is eventually
\* triggered.
C17_CancelAfterRetry ==
    /\ [](cancelled => rPc = "returned")
    /\ [][cancelled' # cancelled => (rPc = "returned" /\ cancelled')]_vars
    /\ ((rPc = "returned" /\ rErr # NilErr) ~> cancelled)

\* Cancelled after main has failed MaxRetries times.
C17_Witness ==
    /\ cancelled
    /\ rErr # NilErr
    /\ invocations = strategy.MaxRetries
    /\ tries = strategy.MaxRetries

\* Cancelled after main has returned nil as well: the signal follows every
\* return of Retry, not only the exhausted budget.
C17_CancelledAfterSuccess == cancelled /\ rErr = NilErr
--------------------------------------------------------------------------
\* A page has been read without error and the loop goes on.
PageReadAndLooping ==
    /\ lPc = "loop" /\ lPc' = "loop"
    /\ Len(trace'.requests) = Len(trace.requests) + 1
    /\ LoopCond(count', total')

\* C18. ListPeople and ListGroups issue finitely many page requests and
\* return, whatever the server answers without error: no page read leaves
\* the loop running with nothing more accumulated than before, which is the
\* state the same answer leaves again, request after request.
C18_EveryPageProgresses == [][PageReadAndLooping => count' > count]_vars

\* What holds: a page of a server that declares the number of items it holds
\* and returns at least one item while items are left either adds to count
\* or ends the loop.
C18_HonestPageProgresses ==
    [][(PageReadAndLooping /\ trace'.honest) => count' > count]_vars

\* The listing has read pages without error, holds nothing, and is still
\* asking for offset 0.
C18_StalledListing ==
    /\ lPc = "loop"
    /\ Len(trace.requests) = MaxRequests
    /\ ~trace.faulted
    /\ \A j \in 1..MaxRequests : trace.requests[j] = 0
    /\ people = <<>>
    /\ LoopCond(count, total)
--------------------------------------------------------------------------
\* The card-binding rows of the credential row with identifier credID.
BindingsOf(credID) == { w \in wiegand : w.CredentialId = credID }

\* C20. After any sequence of CreateCredential and DeleteCredential calls,
\* calls aborted by a storage error at any statement included, every
\* credential row of the store has exactly one card-binding row and every
\* card-binding row references a credential row of the store; and a
\* deletion that has got as far as its second delete statement has removed
\* the card-binding rows and not yet the credential row, inside the
\* transaction.
C20_Pairing ==
    /\ \A c \in credential : Cardinality(BindingsOf(c.Id)) = 1
    /\ \A w \in wiegand : \E c \in credential : c.Id = w.CredentialId
    /\ \A c \in credential :
         \E fn \in {DeleteCredentialFn(credential, wiegand, nextIdentity,
                                       c.PersonId, c.Id, "deleteCredential")} :
            /\ fn.failed = "deleteCredential"
            /\ fn.C = credential
            /\ fn.W = wiegand \ BindingsOf(c.Id)

\* A deletion aborted at its second delete statement, after the binding row
\* had been deleted inside the transaction, has returned; the credential it
\* was deleting is in the store.
C20_Witness ==
    /\ last.op = "delete"
    /\ last.failed \in {"deleteCredential", "rollback"}
    /\ \E c \in credential : c.Id = last.credID /\ c.PersonId = last.id

\* A creation aborted at the insert of the card binding, after the
\* credential row had been inserted inside the transaction, has returned.
C20_AbortedCreate ==
    /\ last.op = "create"
    /\ last.failed = "insertWiegand"
    /\ credential # {}
--------------------------------------------------------------------------
\* Two CreateCredential transactions have begun, for one card pair and two
\* persons; the store was empty, so the pair was unbound.
SameCardTwoPersons ==
    /\ \A t \in Txs : txs[t].pc # "idle"
    /\ SamePair(txs[1].cred, txs[2].cred)
    /\ txs[1].id # txs[2].id

Returned(t) == txs[t].pc = "done"

\* C19. When EAC.WiegandCredential has a unique index on the card pair and
\* two CreateCredential transactions run concurrently for one previously
\* unbound pair and two persons, then under every interleaving at most one
\* of them commits; when both have returned one has committed and the other
\* has failed; a transaction that has failed has left no credential row of
\* its own and no card-binding row; and the pair is bound to at most one
\* credential row by at most one binding row.
C19_UniqueIndexSerialises ==
    (uniqueIndex /\ SameCardTwoPersons) =>
        /\ ~(\A t \in Txs : Returned(t) /\ txs[t].err = Nil)
        /\ (\A t \in Txs : Returned(t)) =>
                \E t \in Txs : /\ txs[t].err = Nil
                               /\ \A u \in Txs \ {t} : txs[u].err # Nil
        /\ \A t \in Txs : (Returned(t) /\ txs[t].err # Nil) =>
                /\ \A c \in credential : c.PersonId # txs[t].id
                /\ \A w \in wiegand : \A c \in txs[t].ins : w.CredentialId # c.Id
        /\ Cardinality(RowsOfPair(credential, wiegand, txs[1].cred)) <= 1
        /\ Cardinality(BindingsOfPair(wiegand, txs[1].cred)) <= 1

\* With the index, both transactions passed the existence check and
\* inserted a credential row; the second insert of the pair failed on the
\* index and was rolled back, and the first committed.
C19_Witness ==
    /\ uniqueIndex /\ SameCardTwoPersons
    /\ \A t \in Txs : Returned(t) /\ txs[t].ins # {}
    /\ \E t \in Txs : txs[t].err = Errorf("could not create wiegand credential")
    /\ Cardinality(credential) = 1

\* Without the index, both transactions passed the existence check, both
\* committed, and the pair is bound to two credential rows of two persons.
C19_RaceWithoutIndex ==
    /\ ~uniqueIndex /\ SameCardTwoPersons
    /\ \A t \in Txs : Returned(t) /\ txs[t].err = Nil
    /\ Cardinality(RowsOfPair(credential, wiegand, txs[1].cred)) = 2

--------------------------------------------------------------------------
\* has_image as Service.ReadPerson reports it for the person id on the
\* picture table P: `HasImage: len(buf) != 0` of what ReadPicture returned.
ReadPersonHasImage(P, id) == ImageLen(ReadPicture(P, id, "none").buf) # 0

\* has_image as Service.ListPeople reports it for the person id: `_, ok :=
\* idSet[p.ID]` over the identifiers of HasPictureIDs.
ListPeopleHasImage(E, P, id) == id \in HasPictureIDs(E, P)

\* The picture states create-person and update-person write or leave: no
\* row, a row of an image of no bytes, a row of a photograph.
WrittenPictureStates == {"norow", "empty", "bytes"}

\* A create or update of the person id has just been answered with 200.
Answered(id) ==
    /\ sLast.op \in {"create", "update"}
    /\ sLast.code = 200
    /\ sLast.id = id

\* C21. has_image is a function of the Local Store alone: for a person of
\* the Remote Directory whose picture state is one that create-person and
\* update-person reach, ReadPerson and ListPeople report the same has_image,
\* and the response of a create-person or update-person that has just been
\* answered carries that value too.
C21_HasImageAgrees ==
    \A i \in Persons :
        (personImage[i] \in WrittenPictureStates /\ RemotePerson(remote, i) # <<>>) =>
            /\ ReadPersonHasImage(personImage, i)
                    = ListPeopleHasImage(eacPerson, personImage, i)
            /\ Answered(i) =>
                    /\ sLast.hasImage = ReadPersonHasImage(personImage, i)
                    /\ sLast.hasImage = ListPeopleHasImage(eacPerson, personImage, i)

\* What holds: the four values agree for a person with no picture row and
\* for a person with a photograph.
C21_AgreeWithoutEmptyImage ==
    \A i \in Persons :
        (personImage[i] \in {"norow", "bytes"} /\ RemotePerson(remote, i) # <<>>) =>
            /\ ReadPersonHasImage(personImage, i)
                    = ListPeopleHasImage(eacPerson, personImage, i)
            /\ Answered(i) =>
                    /\ sLast.hasImage = ReadPersonHasImage(personImage, i)
                    /\ sLast.hasImage = ListPeopleHasImage(eacPerson, personImage, i)

\* The responses of the read and list handlers carry the values the two
\* operators above compute.
C21_ResponsesCarryThem ==
    /\ (sLast.op = "read" /\ sLast.code = 200) =>
            sLast.result[1].HasImage = ReadPersonHasImage(personImage, sLast.id)
    /\ (sLast.op = "list" /\ sLast.code = 200) =>
            \A j \in 1..Len(sLast.result) :
                sLast.result[j].HasImage
                    = ListPeopleHasImage(eacPerson, personImage, sLast.result[j].ID)

\* A person created with an image of no bytes: the create response and
\* ReadPerson say false, ListPeople says true.
C21_EmptyImageAfterCreate ==
    /\ sLast.op = "create" /\ sLast.code = 200 /\ ~sLast.hasImage
    /\ personImage[sLast.id] = "empty"
    /\ ~ReadPersonHasImage(personImage, sLast.id)
    /\ ListPeopleHasImage(eacPerson, personImage, sLast.id)

\* An update without image of a person whose picture row holds an image of
\* no bytes: the update response says true, ReadPerson says false.
C21_EmptyImageAfterUpdate ==
    /\ sLast.op = "update" /\ sLast.code = 200 /\ sLast.hasImage
    /\ personImage[sLast.id] = "empty"
    /\ ~ReadPersonHasImage(personImage, sLast.id)
====
